---- MODULE Spec2Model ----
(***************************************************************************)
(* SGRML (src/src/sgrml/parser.py): markup with style tags is compiled to  *)
(* ECMA-48 SGR escape sequences.                                           *)
(*                                                                         *)
(* A string is a sequence of character codes.  The tokenizer (HTMLParser,  *)
(* the base class of Parser) is represented by the events it delivers to   *)
(* handle_starttag, handle_endtag and handle_data: the source text sgrml   *)
(* of an SGR instance is held as the sequence of events it tokenizes to.   *)
(* The source is arbitrary, so it is disclosed one event at a time: while  *)
(* a feed reads past what earlier steps disclosed, the next event is any   *)
(* event of the input set; what was disclosed is replayed as it is.        *)
(***************************************************************************)
EXTENDS Integers, Sequences, FiniteSets, TLC

VARIABLES
    sgrml,        \* SGR.sgrml: the events of the source disclosed so far
    closed,       \* whether the end of the source has been disclosed
    parsed,       \* SGR._parsed
    tags_stack,   \* Parser.tags_stack, index 1 is the left end of the deque
    result,       \* Parser.result, the list of fragments
    rawcopies,    \* HTMLParser.rawdata: how many copies of the source it holds
    copy,         \* goahead: the copy of the source being read
    i,            \* goahead: the index of the next event in that copy
    pc,           \* "idle": no parse call is running; "feed": inside feed
    feeds,        \* how many times parse has called feed
    ret,          \* what the latest parse call gave: NoCall, Raised or a string
    ev,           \* the latest event delivered to a handler (NoEvent: none)
    err,          \* the error that event raised (NoError: none)
    pre_stack,    \* tags_stack before the latest event
    pre_result,   \* result before the latest event
    eq            \* the latest comparison __eq__(self, value) and what it gave

vars == <<sgrml, closed, parsed, tags_stack, result, rawcopies, copy, i, pc,
          feeds, ret, ev, err, pre_stack, pre_result, eq>>

----------------------------------------------------------------------------
(* Bounds of the model. *)

\* The longest source, in events.
MaxEvents == 4

\* The most feeds (parse calls that find no cached result) of one instance.
MaxFeeds == 2

----------------------------------------------------------------------------
(* Strings. *)

\* Python's None, as the value of SGR._parsed: no string holds -1.
None == <<-1>>

ESC == 27

CSI == <<ESC, 91>>

SGR_FINAL_BYTE == 109

\* The decimal digits of a natural number, as f"{code}" writes an int.
RECURSIVE IntStr(_)
IntStr(n) == IF n < 10 THEN <<48 + n>> ELSE IntStr(n \div 10) \o <<48 + (n % 10)>>

\* wrap_sgr, for a code that is a string already.
wrap_sgr(code) == CSI \o code \o <<SGR_FINAL_BYTE>>

\* "".join(fragments)
RECURSIVE join(_)
join(fragments) ==
    IF fragments = <<>> THEN <<>>
    ELSE Head(fragments) \o join(Tail(fragments))

----------------------------------------------------------------------------
(* SGRTag and the sequence table SGRSequences. *)

SGRTag(html_tag, sgr_sequence) ==
    [html_tag |-> html_tag, sgr_sequence |-> sgr_sequence]

\* str(type.mro(SGRSequences)): "[<class 'sgrml.parser.SGRSequences'>, <class 'object'>]"
MroRepr ==
    <<91, 60, 99, 108, 97, 115, 115, 32, 39, 115, 103, 114, 109, 108, 46, 112,
      97, 114, 115, 101, 114, 46, 83, 71, 82, 83, 101, 113, 117, 101, 110, 99,
      101, 115, 39, 62, 44, 32, 60, 99, 108, 97, 115, 115, 32, 39, 111, 98,
      106, 101, 99, 116, 39, 62, 93>>

\* The list SGRSequences.mro() returns.  It is no SGRTag: html_tag "" stands
\* for an object that equals no tag name (list == str is False).
MroList == [html_tag |-> "", sgr_sequence |-> MroRepr]

\* str(x) of a stack entry: SGRTag.__str__, or the repr of the list.
Str(x) == x.sgr_sequence

\* item == value as deque.remove evaluates it for a str value: SGRTag.__eq__
\* compares the names; the mro list equals no str.
TagEq(item, value) == item.html_tag # "" /\ item.html_tag = value

reset == wrap_sgr(IntStr(0))

\* An underline table numbered from 0.
underline_types_from0 == [solid |-> 0, double |-> 1, wavy |-> 2, dotted |-> 3, dashed |-> 4]

underline_types == [solid |-> 1, double |-> 2, wavy |-> 3, dotted |-> 4, dashed |-> 5]

blink_types == [slow |-> 5, rapid |-> 6, fast |-> 6]

\* hasattr(SGRSequences, tag) for a tag name the tokenizer can deliver (a
\* lower-case name starting with a letter): the six classmethods of the
\* class, and mro, which every class inherits from type.
HasAttr(tag) == tag \in {"reset", "b", "dim", "i", "u", "blink", "mro"}

\* inspect.signature(getattr(SGRSequences, tag)).parameters: the names.
Parameters(tag) == IF tag \in {"u", "blink"} THEN {"type"} ELSE {}

NoError == "none"
UnknownTag == "Unknown tag"
NoAttribute == "don't have attribute"
UnknownType == "Unknown type"
NotInDeque == "is not in deque"

\* sgr_func(**sgr_func_kwargs): [err, tag].  kwargs is a function from the
\* attribute names given to their values.
Call(tag, kwargs) ==
    LET ok(t) == [err |-> NoError, tag |-> t]
        bad   == [err |-> UnknownType, tag |-> MroList]
    IN  CASE tag = "b"   -> ok(SGRTag("b", wrap_sgr(IntStr(1))))
          [] tag = "dim" -> ok(SGRTag("dim", wrap_sgr(IntStr(2))))
          [] tag = "i"   -> ok(SGRTag("i", wrap_sgr(IntStr(3))))
          [] tag = "u"   ->
                LET type == IF "type" \in DOMAIN kwargs THEN kwargs["type"] ELSE "solid"
                IN  IF type \notin DOMAIN underline_types THEN bad
                    ELSE ok(SGRTag("u", wrap_sgr(IntStr(4) \o <<58>>
                                                 \o IntStr(underline_types[type]))))
          [] tag = "blink" ->
                LET type == IF "type" \in DOMAIN kwargs THEN kwargs["type"] ELSE "slow"
                IN  IF type \notin DOMAIN blink_types THEN bad
                    ELSE ok(SGRTag("blink", wrap_sgr(IntStr(blink_types[type]))))
          [] OTHER -> ok(MroList)

----------------------------------------------------------------------------
(* Parser: the handlers, as functions of the parser's state.  Each gives    *)
(* [err, tags_stack, result]; a handler that raises has changed nothing.   *)

Raise(e, stack, res) == [err |-> e, tags_stack |-> stack, result |-> res]

Return(stack, res) == [err |-> NoError, tags_stack |-> stack, result |-> res]

validate_tag(tag) == IF HasAttr(tag) THEN NoError ELSE UnknownTag

\* sgr_reset without the clear of the stack.
sgr_reset_keep(stack, res) == Return(stack, Append(res, reset))

sgr_reset(stack, res) == Return(<<>>, Append(res, reset))

\* A push at the right end of the deque (deque.append).
appendright(stack, x) == Append(stack, x)

\* deque.appendleft
appendleft(stack, x) == <<x>> \o stack

\* An index for deque.remove that takes the last entry from the left that
\* equals value: the oldest one.
RemoveIndexOldest(stack, value) ==
    IF \E k \in 1..Len(stack) : TagEq(stack[k], value)
    THEN CHOOSE k \in 1..Len(stack) :
            /\ TagEq(stack[k], value)
            /\ \A j \in (k + 1)..Len(stack) : ~TagEq(stack[j], value)
    ELSE 0

\* The index deque.remove(value) deletes: the first entry from the left
\* that equals value; 0 when there is none (remove raises ValueError).
RemoveIndex(stack, value) ==
    IF \E k \in 1..Len(stack) : TagEq(stack[k], value)
    THEN CHOOSE k \in 1..Len(stack) :
            /\ TagEq(stack[k], value)
            /\ \A j \in 1..(k - 1) : ~TagEq(stack[j], value)
    ELSE 0

\* The deque without the entry at index k and without the entries left of it.
DeleteThrough(stack, k) == SubSeq(stack, k + 1, Len(stack))

\* The deque without the entry at index k.
DeleteAt(stack, k) == SubSeq(stack, 1, k - 1) \o SubSeq(stack, k + 1, Len(stack))

\* A replay that leaves out the first entry of the deque.
ReplayTail(stack) == [k \in 1..(Len(stack) - 1) |-> Str(stack[k + 1])]

\* for stack_tag in self.tags_stack: self.result.append(str(stack_tag))
\* The deque is iterated from its left end.
Replay(stack) == [k \in 1..Len(stack) |-> Str(stack[k])]

\* The keyword arguments the attribute loop builds: a later attribute of
\* the same name overwrites an earlier one.
Kwargs(attrs) ==
    [a \in {attrs[k][1] : k \in 1..Len(attrs)} |->
        LET last == CHOOSE k \in 1..Len(attrs) :
                        /\ attrs[k][1] = a
                        /\ \A j \in (k + 1)..Len(attrs) : attrs[j][1] # a
        IN  attrs[last][2]]

\* handle_starttag that looks at the attributes before it looks for reset.
handle_starttag_strict(stack, res, tag, attrs) ==
    IF validate_tag(tag) # NoError THEN Raise(UnknownTag, stack, res)
    ELSE IF \E k \in 1..Len(attrs) : attrs[k][1] \notin Parameters(tag)
         THEN Raise(NoAttribute, stack, res)
    ELSE IF tag = "reset" THEN sgr_reset(stack, res)
    ELSE LET called == Call(tag, Kwargs(attrs))
         IN  IF called.err # NoError THEN Raise(called.err, stack, res)
             ELSE Return(appendleft(stack, called.tag),
                         Append(res, Str(called.tag)))

handle_starttag(stack, res, tag, attrs) ==
    IF tag = "reset" THEN sgr_reset(stack, res)
    ELSE IF validate_tag(tag) # NoError THEN Raise(UnknownTag, stack, res)
    ELSE IF \E k \in 1..Len(attrs) : attrs[k][1] \notin Parameters(tag)
         THEN Raise(NoAttribute, stack, res)
    ELSE LET called == Call(tag, Kwargs(attrs))
         IN  IF called.err # NoError THEN Raise(called.err, stack, res)
             ELSE Return(appendleft(stack, called.tag),
                         Append(res, Str(called.tag)))

\* handle_endtag that takes a tag that is not on the stack for closed already.
handle_endtag_lenient(stack, res, tag) ==
    IF tag = "reset" THEN sgr_reset(stack, res)
    ELSE IF validate_tag(tag) # NoError THEN Raise(UnknownTag, stack, res)
    ELSE LET k == RemoveIndex(stack, tag)
             left == IF k = 0 THEN stack ELSE DeleteAt(stack, k)
         IN  Return(left, Append(res, reset) \o Replay(left))

handle_endtag(stack, res, tag) ==
    IF tag = "reset" THEN sgr_reset(stack, res)
    ELSE IF validate_tag(tag) # NoError THEN Raise(UnknownTag, stack, res)
    ELSE LET k == RemoveIndex(stack, tag)
         IN  IF k = 0 THEN Raise(NotInDeque, stack, res)
             ELSE LET left == DeleteAt(stack, k)
                  IN  Return(left, Append(res, reset) \o Replay(left))

\* handle_data that puts the text at the front of the list.
handle_data_front(stack, res, data) == Return(stack, <<data>> \o res)

handle_data(stack, res, data) == Return(stack, Append(res, data))

----------------------------------------------------------------------------
(* Events: what the tokenizer delivers. *)

StartEvent(tag, attrs) == [kind |-> "start", tag |-> tag, attrs |-> attrs, data |-> <<>>]
EndEvent(tag)          == [kind |-> "end", tag |-> tag, attrs |-> <<>>, data |-> <<>>]
DataEvent(data)        == [kind |-> "data", tag |-> "", attrs |-> <<>>, data |-> data]
EofEvent               == [kind |-> "eof", tag |-> "", attrs |-> <<>>, data |-> <<>>]
NoEvent                == [kind |-> "none", tag |-> "", attrs |-> <<>>, data |-> <<>>]

Handle(stack, res, e) ==
    CASE e.kind = "start" -> handle_starttag(stack, res, e.tag, e.attrs)
      [] e.kind = "end"   -> handle_endtag(stack, res, e.tag)
      [] OTHER            -> handle_data(stack, res, e.data)

----------------------------------------------------------------------------
(* The inputs: the events a source may hold. *)

Type(v) == <<"type", v>>

TagNames == {"b", "dim", "i", "u", "blink", "inverse", "reset", "mro", "unsupported"}

StartEvents ==
    {StartEvent(t, <<>>) : t \in TagNames}
    \cup {StartEvent("u", <<Type(v)>>) : v \in {"wavy", "none"}}
    \cup {StartEvent("blink", <<Type(v)>>) : v \in {"rapid", "wavy"}}
    \cup {StartEvent("b", <<Type("x")>>),
          StartEvent("u", <<<<"unsupported", "none">>>>),
          StartEvent("u", <<Type("none"), Type("solid")>>),
          StartEvent("u", <<Type("solid"), Type("none")>>),
          StartEvent("reset", <<Type("x")>>)}

EndEvents == {EndEvent(t) : t \in TagNames}

\* "x" and "hi"
Texts == {<<120>>, <<104, 105>>}

DataEvents == {DataEvent(d) : d \in Texts}

\* The events of the sources parsed again after an error.
AgainEvents ==
    {StartEvent(t, <<>>) : t \in {"b", "i", "reset", "mro", "unsupported"}}
    \cup {StartEvent("u", <<Type(v)>>) : v \in {"wavy", "none"}}
    \cup {EndEvent(t) : t \in {"b", "i", "u", "mro"}}
    \cup {DataEvent(<<120>>)}

\* The tags of the balanced pairs <X>text</X>.
PairTags == {"b", "dim", "i", "u", "blink"}

----------------------------------------------------------------------------
(* SGR: the facade, and the feed of its parser. *)

\* What the latest parse call gave its caller.
NoCall    == [how |-> "none", value |-> <<>>]
Raised    == [how |-> "raised", value |-> <<>>]
Fed(v)    == [how |-> "fed", value |-> v]
Cached(v) == [how |-> "cached", value |-> v]

\* The value an instance is compared with: a str, another SGR instance (not
\* compiled yet, with its own source) or a value of another type.
StrValue(v)   == [kind |-> "str", value |-> v, sgrml |-> <<>>]
SGRValue(src) == [kind |-> "SGR", value |-> <<>>, sgrml |-> src]
IntValue      == [kind |-> "int", value |-> <<>>, sgrml |-> <<>>]

\* A comparison: none so far, waiting for str(self), or done with what it
\* gave: "True", "False", CompileError (parse raised) or CantCompare.
NoEq             == [state |-> "none", value |-> IntValue, gave |-> ""]
EqPending(value) == [state |-> "pending", value |-> value, gave |-> ""]
EqDone(value, g) == [state |-> "done", value |-> value, gave |-> g]
CompileError == "ValueError in parse"
CantCompare  == "ValueError Can't compare"

\* The comparison after str(self) raised: the error goes to the caller.
EqAfterRaise(q) == IF q.state = "pending" THEN EqDone(q.value, CompileError) ELSE q

Init ==
    /\ sgrml = <<>>
    /\ closed = FALSE
    /\ parsed = None
    /\ tags_stack = <<>>
    /\ result = <<>>
    /\ rawcopies = 0
    /\ copy = 1
    /\ i = 1
    /\ pc = "idle"
    /\ feeds = 0
    /\ ret = NoCall
    /\ ev = NoEvent
    /\ err = NoError
    /\ pre_stack = <<>>
    /\ pre_result = <<>>
    /\ eq = NoEq

\* A cache test that never finds the cached result.
IsCachedNever(p) == FALSE

\* if self._parsed is not None
IsCached(p) == p # None

\* parse, a cached result: return self._parsed.  q is the comparison after
\* the call (eq itself for a call that is no part of a comparison).
StrCached(q) ==
    /\ pc = "idle"
    /\ IsCached(parsed)
    /\ ret' = Cached(parsed)
    /\ eq' = q
    /\ UNCHANGED <<sgrml, closed, parsed, tags_stack, result, rawcopies, copy, i,
                   pc, feeds, ev, err, pre_stack, pre_result>>

ParseCached == StrCached(eq)

\* parse, no cached result: self._parser.feed(self.sgrml).  feed appends the
\* source to rawdata and goahead reads rawdata from its start.
StrFeed(q) ==
    /\ pc = "idle"
    /\ ~IsCached(parsed)
    /\ eq' = q
    /\ feeds < MaxFeeds
    /\ feeds' = feeds + 1
    /\ rawcopies' = rawcopies + 1
    /\ copy' = 1
    /\ i' = 1
    /\ pc' = "feed"
    /\ ev' = NoEvent
    /\ err' = NoError
    /\ pre_stack' = tags_stack
    /\ pre_result' = result
    /\ UNCHANGED <<sgrml, closed, parsed, tags_stack, result, ret>>

ParseFeed == StrFeed(eq)

\* The first parse call of the instance.
ParseFirst == feeds = 0 /\ ParseFeed

\* A parse call after the first one fed the parser.
ParseAgain == feeds > 0 /\ ParseFeed

\* A parse that caches what the parser holds when a handler raises.
ParsedAfterRaiseCached(p, res) == join(res)

\* _parsed after a handler raised inside feed: the assignment of line 189 is
\* not reached.
ParsedAfterRaise(p, res) == p

\* goahead delivers event e to its handler; the source holds at most max
\* events.  An error leaves feed and parse: rawdata keeps every copy of the
\* source (goahead cuts it only as it returns).
Deliver(e, max) ==
    /\ pc = "feed"
    /\ IF i <= Len(sgrml) THEN e = sgrml[i]
       ELSE ~closed /\ Len(sgrml) < max
    /\ sgrml' = IF i <= Len(sgrml) THEN sgrml ELSE Append(sgrml, e)
    /\ LET out == Handle(tags_stack, result, e)
       IN  /\ tags_stack' = out.tags_stack
           /\ result' = out.result
           /\ err' = out.err
           /\ IF out.err = NoError
              THEN /\ i' = i + 1
                   /\ UNCHANGED <<pc, ret, copy, parsed, eq>>
              ELSE /\ eq' = EqAfterRaise(eq)
                   /\ i' = 1
                   /\ copy' = 1
                   /\ pc' = "idle"
                   /\ ret' = Raised
                   /\ parsed' = ParsedAfterRaise(parsed, out.result)
    /\ ev' = e
    /\ pre_stack' = tags_stack
    /\ pre_result' = result
    /\ UNCHANGED <<closed, rawcopies, feeds>>

Starttag == \E e \in StartEvents : Deliver(e, MaxEvents)

Endtag == \E e \in EndEvents : Deliver(e, MaxEvents)

Data == \E e \in DataEvents : Deliver(e, MaxEvents)

\* get_result that resets only when a tag is still open.
get_result_open(stack, res) ==
    LET out == IF stack = <<>> THEN Return(stack, res) ELSE sgr_reset(stack, res)
    IN  [tags_stack |-> out.tags_stack, result |-> out.result,
         value |-> join(out.result)]

\* get_result: [tags_stack, result, value]
get_result(stack, res) ==
    LET out == sgr_reset(stack, res)
    IN  [tags_stack |-> out.tags_stack, result |-> out.result,
         value |-> join(out.result)]

\* parse of another instance, fresh, with source src: [err, value].
RECURSIVE Feed(_, _, _)
Feed(stack, res, src) ==
    IF src = <<>> THEN [err |-> NoError, value |-> get_result(stack, res).value]
    ELSE LET out == Handle(stack, res, Head(src))
         IN  IF out.err # NoError THEN [err |-> out.err, value |-> <<>>]
             ELSE Feed(out.tags_stack, out.result, Tail(src))

Compile(src) == Feed(<<>>, <<>>, src)

Bool(b) == IF b THEN "True" ELSE "False"

\* __eq__ comparing the sources instead of the compiled strings.
CompareSources(mine, value) ==
    IF value.kind = "str" THEN EqDone(value, Bool(mine = value.value))
    ELSE EqDone(value, Bool(sgrml = value.sgrml))

\* __eq__(self, value) for a str or an SGR value, once str(self) gave mine:
\* mine == value, or mine == str(value), which compiles the other instance.
Compare(mine, value) ==
    IF value.kind = "str" THEN EqDone(value, Bool(mine = value.value))
    ELSE LET other == Compile(value.sgrml)
         IN  IF other.err # NoError THEN EqDone(value, CompileError)
             ELSE EqDone(value, Bool(mine = other.value))

\* goahead reaches the end of a copy of the source.  With another copy left in
\* rawdata it reads on; at the end of rawdata feed returns and parse sets
\* _parsed to get_result().
EndOfInput ==
    /\ pc = "feed"
    /\ i > Len(sgrml)
    /\ closed' = TRUE
    /\ ev' = EofEvent
    /\ err' = NoError
    /\ pre_stack' = tags_stack
    /\ pre_result' = result
    /\ IF copy < rawcopies
       THEN /\ copy' = copy + 1
            /\ i' = 1
            /\ UNCHANGED <<parsed, tags_stack, result, rawcopies, pc, ret, eq>>
       ELSE LET out == get_result(tags_stack, result)
            IN  /\ eq' = IF eq.state = "pending" THEN Compare(out.value, eq.value)
                         ELSE eq
                /\ tags_stack' = out.tags_stack
                /\ result' = out.result
                /\ parsed' = out.value
                /\ ret' = Fed(out.value)
                /\ rawcopies' = 0
                /\ copy' = 1
                /\ i' = 1
                /\ pc' = "idle"
    /\ UNCHANGED <<sgrml, feeds>>

\* One instance whose caller gives up after an error.
Next ==
    \/ ParseFirst
    \/ ParseCached
    \/ Starttag
    \/ Endtag
    \/ Data
    \/ EndOfInput

Spec == Init /\ [][Next]_vars

\* One instance whose caller calls parse again, also after an error.
AgainEvent == \E e \in AgainEvents : Deliver(e, MaxEvents)

NextAgain ==
    \/ ParseFirst
    \/ ParseAgain
    \/ ParseCached
    \/ AgainEvent
    \/ EndOfInput

SpecAgain == Init /\ [][NextAgain]_vars

\* The events, and the values compared with, of the compared instances.
EqEvents ==
    {StartEvent("reset", <<>>), EndEvent("reset"), StartEvent("u", <<>>),
     StartEvent("unsupported", <<>>), DataEvent(<<120>>)}

EqValues ==
    {StrValue(v) : v \in {reset, reset \o reset, <<120>> \o reset}}
    \cup {SGRValue(src) : src \in {<<>>, <<EndEvent("reset")>>,
                                   <<StartEvent("u", <<Type("solid")>>)>>,
                                   <<StartEvent("b", <<>>), EndEvent("i")>>}}

\* __eq__ with a str or an SGR value: str(self) first, cached or by a feed.
EqCached == \E value \in EqValues : StrCached(Compare(parsed, value))

EqFeed == \E value \in EqValues : StrFeed(EqPending(value))

\* __eq__ with a value of another type: raise ValueError.
EqOther ==
    /\ pc = "idle"
    /\ eq' = EqDone(IntValue, CantCompare)
    /\ UNCHANGED <<sgrml, closed, parsed, tags_stack, result, rawcopies, copy, i,
                   pc, feeds, ret, ev, err, pre_stack, pre_result>>

EqEvent == \E e \in EqEvents : Deliver(e, MaxEvents)

NextEq ==
    \/ EqCached
    \/ EqFeed
    \/ EqOther
    \/ EqEvent
    \/ EndOfInput

SpecEq == Init /\ [][NextEq]_vars

\* The most pairs of a source of balanced pairs.
MaxPairs == 2

\* The n-th event of a source of balanced pairs <X>text</X>...: e fits.
PairShape(src, n, e) ==
    CASE n % 3 = 1 -> e.kind = "start" /\ e.tag \in PairTags /\ e.attrs = <<>>
      [] n % 3 = 2 -> e.kind = "data"
      [] OTHER     -> e = EndEvent(src[n - 2].tag)

PairEvent ==
    \E e \in StartEvents \cup EndEvents \cup DataEvents :
        /\ PairShape(sgrml, Len(sgrml) + 1, e)
        /\ Deliver(e, 3 * MaxPairs)

NextPairs ==
    \/ ParseFirst
    \/ ParseCached
    \/ PairEvent
    \/ EndOfInput

SpecPairs == Init /\ [][NextPairs]_vars

\* The most start events of a source of table lookups.
MaxLookups == 2

\* Every style and variant of the table: b, dim, i, and u and blink without
\* an attribute and with each type.
TableEvents ==
    {StartEvent(t, <<>>) : t \in PairTags}
    \cup {StartEvent("u", <<Type(v)>>) : v \in DOMAIN underline_types}
    \cup {StartEvent("blink", <<Type(v)>>) : v \in DOMAIN blink_types}

TableEvent == \E e \in TableEvents : Deliver(e, MaxLookups)

NextTable ==
    \/ ParseFirst
    \/ ParseCached
    \/ TableEvent
    \/ EndOfInput

SpecTable == Init /\ [][NextTable]_vars

----------------------------------------------------------------------------
(* The claims. *)

\* The sequences of the tags of a stack, the oldest tag first.
OuterToInner(stack) == [k \in 1..Len(stack) |-> Str(stack[Len(stack) + 1 - k])]

EndsWith(s, t) == Len(s) >= Len(t) /\ SubSeq(s, Len(s) - Len(t) + 1, Len(s)) = t

\* The style tags the specification lists, and with reset the recognized names.
StyleTags == {"b", "dim", "i", "u", "blink", "inverse"}
RecognizedNames == StyleTags \cup {"reset"}

\* The latest event raised nothing / left the parser as it was.
Succeeded == err = NoError
ParserUntouched == tags_stack = pre_stack /\ result = pre_result

\* C1: an end event (name other than reset) that succeeds appends one reset,
\* then the sequence of every tag left on the stack, the oldest first.
C1_EndReplaysOuterToInner ==
    (ev.kind = "end" /\ ev.tag # "reset" /\ Succeeded)
        => result = Append(pre_result, reset) \o OuterToInner(tags_stack)

\* The sequence of style tag X opened without attributes.
seq(X) == Call(X, <<>>).tag.sgr_sequence

\* The source is n balanced pairs <X>text</X>.
IsPairs(src, n) ==
    /\ Len(src) = 3 * n
    /\ \A p \in 0..(n - 1) :
          /\ src[3 * p + 1] = StartEvent(src[3 * p + 1].tag, <<>>)
          /\ src[3 * p + 1].tag \in PairTags
          /\ src[3 * p + 2].kind = "data"
          /\ src[3 * p + 3] = EndEvent(src[3 * p + 1].tag)

\* C2: <X>t</X> compiles to seq(X) t reset reset, and <X>s</X><Y>t</Y> to
\* seq(X) s reset seq(Y) t reset reset.
C2_BalancedPairs ==
    /\ (parsed # None /\ IsPairs(sgrml, 1))
          => parsed = seq(sgrml[1].tag) \o sgrml[2].data \o reset \o reset
    /\ (parsed # None /\ IsPairs(sgrml, 2))
          => parsed = seq(sgrml[1].tag) \o sgrml[2].data \o reset
                      \o seq(sgrml[4].tag) \o sgrml[5].data \o reset \o reset

C2_Witness ==
    /\ parsed # None
    /\ IsPairs(sgrml, 2)
    /\ sgrml[1].tag # sgrml[4].tag
    /\ sgrml[2].data # sgrml[5].data

\* C3: a start event without attributes for each of b, dim, i, u, blink,
\* inverse succeeds, pushes one tag of that name and appends its sequence.
C3_SixStyleTagsAccepted ==
    (ev.kind = "start" /\ ev.tag \in StyleTags /\ ev.attrs = <<>>)
        => /\ Succeeded
           /\ tags_stack # <<>>
           /\ Tail(tags_stack) = pre_stack
           /\ Head(tags_stack).html_tag = ev.tag
           /\ result = Append(pre_result, Head(tags_stack).sgr_sequence)

\* C4: a start or end event with a name that is not recognized fails with the
\* unknown-style error and leaves the stack and the output as they were.
C4_UnknownNameFails ==
    (ev.kind \in {"start", "end"} /\ ev.tag \notin RecognizedNames)
        => err = UnknownTag /\ ParserUntouched

\* The attributes and variants the specification's table gives a tag.
TableAttributes(tag) == IF tag \in {"u", "blink"} THEN {"type"} ELSE {}
TableVariants(tag) ==
    CASE tag = "u"     -> {"solid", "double", "wavy", "dotted", "dashed"}
      [] tag = "blink" -> {"slow", "rapid", "fast"}
      [] OTHER         -> {}

\* C5: a start event on b, dim, i, u or blink that carries an attribute the
\* tag does not accept, or type with a value that is no variant of the tag,
\* fails and leaves the stack and the output as they were.
C5_BadAttributeFails ==
    (/\ ev.kind = "start"
     /\ ev.tag \in PairTags
     /\ \E k \in 1..Len(ev.attrs) :
           \/ ev.attrs[k][1] \notin TableAttributes(ev.tag)
           \/ ev.attrs[k][1] = "type" /\ ev.attrs[k][2] \notin TableVariants(ev.tag))
        => ~Succeeded /\ ParserUntouched

TextOnly(src) == \A k \in 1..Len(src) : src[k].kind = "data"

\* C6: a source of text events only (none included) compiles to the texts
\* in their order, followed by one reset.
C6_TextThenOneReset ==
    (parsed # None /\ TextOnly(sgrml))
        => parsed = join([k \in 1..Len(sgrml) |-> sgrml[k].data]) \o reset

C6_Witness ==
    /\ parsed # None
    /\ TextOnly(sgrml)
    /\ Len(sgrml) = 2
    /\ sgrml[1] # sgrml[2]

\* C7: a compiled output ends with a reset and leaves the stack empty, tags
\* left open or not; after a final end event that emptied the stack it ends
\* with two resets.
C7_EndsResetStackEmpty ==
    parsed # None
        => /\ tags_stack = <<>>
           /\ EndsWith(parsed, reset)
           /\ (/\ sgrml # <<>>
               /\ sgrml[Len(sgrml)].kind = "end"
               /\ pre_stack = <<>>) => EndsWith(parsed, reset \o reset)

C7_Witness ==
    /\ parsed # None
    /\ Len(pre_stack) >= 2
    /\ sgrml[Len(sgrml)].kind = "end"

\* C8: once a compile has succeeded, every later parse call returns the
\* cached string, feeds nothing (one feed in all) and leaves the parser's
\* stack and list as they are.
C8_CompileIdempotent ==
    [][parsed # None =>
          /\ parsed' = parsed
          /\ ret'.value = parsed
          /\ feeds = 1 /\ feeds' = 1
          /\ pc' = "idle"
          /\ rawcopies' = rawcopies
          /\ tags_stack' = tags_stack
          /\ result' = result]_vars

C8_Witness ==
    /\ ret = Cached(parsed)
    /\ Len(sgrml) >= 2
    /\ feeds = 1

\* C9: after a parse call that raised, the cached result is unset and stays
\* unset: every later parse call raises too, none returns a string.
C9_FailedNeverCompiles ==
    (ret.how = "raised" \/ feeds >= 2)
        => /\ parsed = None
           /\ ret = Raised
           /\ pc = "idle" => ~Succeeded

C9_Witness ==
    /\ feeds = 2
    /\ pc = "idle"
    /\ ret = Raised
    /\ Len(tags_stack) = 2
    /\ Len(result) > Len(sgrml)

\* C10: an end event for b, dim, i, u, blink or inverse with no tag of that
\* name on the stack fails, appends nothing and leaves the stack as it was.
C10_UnmatchedEndFails ==
    (/\ ev.kind = "end"
     /\ ev.tag \in StyleTags
     /\ \A k \in 1..Len(pre_stack) : pre_stack[k].html_tag # ev.tag)
        => ~Succeeded /\ ParserUntouched

C10_Witness ==
    /\ ev = EndEvent("b")
    /\ err = NotInDeque
    /\ pre_stack # <<>>
    /\ \E k \in 1..Len(pre_result) : pre_result[k] = seq("b")
    /\ ParserUntouched

\* The parameter the reference table gives a style and a variant ("" for no
\* type attribute), in character codes.
RefParameter(tag, variant) ==
    CASE tag = "b"   -> <<49>>
      [] tag = "dim" -> <<50>>
      [] tag = "i"   -> <<51>>
      [] tag = "u"   ->
            (CASE variant \in {"", "solid"} -> <<52, 58, 49>>
               [] variant = "double"        -> <<52, 58, 50>>
               [] variant = "wavy"          -> <<52, 58, 51>>
               [] variant = "dotted"        -> <<52, 58, 52>>
               [] variant = "dashed"        -> <<52, 58, 53>>)
      [] tag = "blink" ->
            (CASE variant \in {"", "slow"}      -> <<53>>
               [] variant \in {"rapid", "fast"} -> <<54>>)

\* The variant a start event asks for: the value of its one attribute.
VariantOf(e) == IF e.attrs = <<>> THEN "" ELSE e.attrs[1][2]

\* A start event of the table: no attribute, or type with a listed variant.
IsTableLookup(e) ==
    /\ e.kind = "start"
    /\ e.tag \in PairTags
    /\ \/ e.attrs = <<>>
       \/ /\ Len(e.attrs) = 1
          /\ e.attrs[1][1] = "type"
          /\ e.attrs[1][2] \in TableVariants(e.tag)

\* C11: every style and variant emits ESC [ parameter m with the parameter
\* of the reference table (u: 4:1..4:5, blink: 5, 6, 6, b, dim, i: 1, 2, 3;
\* no attribute is solid for u and slow for blink).
C11_VariantLookup ==
    IsTableLookup(ev)
        => /\ Succeeded
           /\ tags_stack # <<>>
           /\ Head(tags_stack).html_tag = ev.tag
           /\ Head(tags_stack).sgr_sequence
                 = <<27, 91>> \o RefParameter(ev.tag, VariantOf(ev)) \o <<109>>
           /\ result = Append(pre_result, Head(tags_stack).sgr_sequence)

C11_Witness ==
    /\ ev = StartEvent("blink", <<Type("fast")>>)
    /\ Succeeded
    /\ Len(tags_stack) = 2
    /\ tags_stack[2].html_tag = "u"
    /\ tags_stack[2].sgr_sequence = <<27, 91, 52, 58, 53, 109>>

\* C12: a comparison with a str or another instance gives True exactly when
\* the compiled strings are the same, whatever the sources; with a value of
\* another type it raises; it compiles the instance, and an error of either
\* compilation goes to the caller.
C12_Equality ==
    eq.state = "done" =>
        CASE eq.value.kind = "int" -> eq.gave = CantCompare
          [] eq.value.kind = "str" ->
                /\ feeds >= 1
                /\ IF parsed = None THEN eq.gave = CompileError
                   ELSE eq.gave = Bool(parsed = eq.value.value)
          [] OTHER ->
                /\ feeds >= 1
                /\ IF parsed = None \/ Compile(eq.value.sgrml).err # NoError
                   THEN eq.gave = CompileError
                   ELSE eq.gave = Bool(parsed = Compile(eq.value.sgrml).value)

C12_Witness ==
    /\ eq.state = "done"
    /\ eq.value.kind = "SGR"
    /\ eq.value.sgrml # sgrml
    /\ eq.gave = "True"
    /\ Len(sgrml) = 1

\* ESC[4:1m and ESC[4:3m, and the tags that carry them.
SolidSeq == <<27, 91, 52, 58, 49, 109>>
WavySeq  == <<27, 91, 52, 58, 51, 109>>
SolidU == [html_tag |-> "u", sgr_sequence |-> SolidSeq]
WavyU  == [html_tag |-> "u", sgr_sequence |-> WavySeq]

\* An end event of a tag name (a reset event is none) that succeeded.
EndSucceeded == ev.kind = "end" /\ ev.tag # "reset" /\ Succeeded

\* C13: a successful end event removes one stack entry, the newest one (the
\* leftmost) whose name is the event's name, whatever its variant; the other
\* entries keep their order.  After start(u, wavy), start(u, solid), end(u)
\* the stack holds the wavy tag alone and the replay emits ESC[4:3m.
C13_EndRemovesNewestOfName ==
    /\ EndSucceeded =>
          \E k \in 1..Len(pre_stack) :
             /\ pre_stack[k].html_tag = ev.tag
             /\ \A j \in 1..(k - 1) : pre_stack[j].html_tag # ev.tag
             /\ tags_stack = SubSeq(pre_stack, 1, k - 1)
                                \o SubSeq(pre_stack, k + 1, Len(pre_stack))
    /\ (EndSucceeded /\ ev.tag = "u" /\ pre_stack = <<SolidU, WavyU>>)
          => /\ tags_stack = <<WavyU>>
             /\ result = pre_result \o <<reset, WavySeq>>

C13_Witness ==
    /\ EndSucceeded
    /\ ev.tag = "u"
    /\ pre_stack = <<SolidU, WavyU>>
    /\ sgrml = <<StartEvent("u", <<Type("wavy")>>), StartEvent("u", <<>>), EndEvent("u")>>

\* The sequences of the underline and of the blink attribute.
UnderlineSeqs == {wrap_sgr(IntStr(4) \o <<58>> \o IntStr(n)) : n \in 1..5}
BlinkSeqs == {wrap_sgr(IntStr(n)) : n \in {5, 6}}

\* What a terminal shows for an attribute after the fragments of res: the
\* last sequence of the attribute since the last reset, <<>> for none.
Effective(res, seqs) ==
    LET K == {k \in 1..Len(res) : res[k] \in seqs \cup {reset}}
    IN  IF K = {} THEN <<>>
        ELSE LET last == CHOOSE k \in K : \A j \in K : j <= k
             IN  IF res[last] = reset THEN <<>> ELSE res[last]

\* The sequence of the newest tag of a name on the stack, <<>> for none.
NewestOpen(stack, name) ==
    LET K == {k \in 1..Len(stack) : stack[k].html_tag = name}
    IN  IF K = {} THEN <<>>
        ELSE Str(stack[CHOOSE k \in K : \A j \in K : k <= j])

\* C14: after a successful end event the underline (the blink) a terminal
\* shows is the variant of the newest u (blink) tag that is still open.
C14_EffectiveStyling ==
    EndSucceeded
        => /\ Effective(result, UnderlineSeqs) = NewestOpen(tags_stack, "u")
           /\ Effective(result, BlinkSeqs) = NewestOpen(tags_stack, "blink")

\* The tags a history of successful events leaves open, the newest first: a
\* start event opens its tag, an end event closes the newest open tag of its
\* name, text does nothing; a reset event closes every tag when sinceReset
\* holds and does nothing otherwise.
RECURSIVE Open(_, _)
Open(history, sinceReset) ==
    IF history = <<>> THEN <<>>
    ELSE LET e == history[Len(history)]
             before == Open(SubSeq(history, 1, Len(history) - 1), sinceReset)
             K == {k \in 1..Len(before) : before[k].html_tag = e.tag}
             first == CHOOSE k \in K : \A j \in K : k <= j
         IN  CASE e.kind = "data" -> before
               [] e.tag = "reset" -> IF sinceReset THEN <<>> ELSE before
               [] e.kind = "start" -> <<Call(e.tag, Kwargs(e.attrs)).tag>> \o before
               [] OTHER -> IF K = {} THEN before
                           ELSE [k \in 1..(Len(before) - 1) |->
                                    IF k < first THEN before[k] ELSE before[k + 1]]

\* The events handled so far by the feed in progress.
Handled == SubSeq(sgrml, 1, i - 1)

\* C15, as stated: during a feed the stack holds exactly the tags whose start
\* event has been seen and whose end event has not been seen, in open order,
\* a reset event while tags are open included.
C15_StackIsOpenTags ==
    pc = "feed" => tags_stack = Open(Handled, FALSE)

\* C15, amended: during a feed the stack holds exactly the tags whose start
\* event has been seen since the latest reset event and whose end event has
\* not been seen, in open order.
C15_StackIsOpenTagsSinceReset ==
    pc = "feed" => tags_stack = Open(Handled, TRUE)

C15_Witness ==
    /\ pc = "feed"
    /\ i = 5
    /\ sgrml[2].tag = "reset"
    /\ Len(Open(Handled, FALSE)) = 3
    /\ Len(tags_stack) = 2
    /\ tags_stack[1] # tags_stack[2]

\* C16: a successful start event of a tag name makes the stack one deeper and
\* appends one fragment; a successful end event of a tag name makes it one
\* shallower; a reset event in either form and the end of the input leave
\* depth 0; an event that failed leaves the depth and the output as they were.
C16_DepthTransitions ==
    /\ (ev.kind = "start" /\ ev.tag # "reset" /\ Succeeded)
          => /\ Len(tags_stack) = Len(pre_stack) + 1
             /\ Len(result) = Len(pre_result) + 1
             /\ SubSeq(result, 1, Len(pre_result)) = pre_result
    /\ EndSucceeded => Len(tags_stack) = Len(pre_stack) - 1
    /\ (ev.kind \in {"start", "end"} /\ ev.tag = "reset") => Len(tags_stack) = 0
    /\ ev.kind = "eof" => Len(tags_stack) = 0
    /\ ~Succeeded => /\ Len(tags_stack) = Len(pre_stack)
                     /\ Len(result) = Len(pre_result)

C16_Witness ==
    /\ EndSucceeded
    /\ Len(pre_stack) = 3
    /\ pre_stack[1].html_tag # ev.tag
    /\ Len(tags_stack) = 2

\* A reset event, in the start or in the end form.
IsReset(e) == e.kind \in {"start", "end"} /\ e.tag = "reset"

\* C17: a reset event, in either form, in any state and with any attributes,
\* succeeds, appends one reset sequence and leaves the stack empty; in every
\* state the two forms give the same, and a second reset leaves the stack as
\* the first one left it.
C17_ResetAlwaysLegal ==
    /\ IsReset(ev) => /\ Succeeded
                      /\ tags_stack = <<>>
                      /\ result = Append(pre_result, reset)
    /\ \A attrs \in {<<>>, <<Type("x")>>} :
          LET once == Handle(tags_stack, result, StartEvent("reset", attrs))
              twice == Handle(once.tags_stack, once.result, EndEvent("reset"))
          IN  /\ once = Handle(tags_stack, result, EndEvent("reset"))
              /\ twice.err = NoError
              /\ twice.tags_stack = once.tags_stack

C17_Witness ==
    /\ ev = StartEvent("reset", <<Type("x")>>)
    /\ Succeeded
    /\ Len(pre_stack) = 2
    /\ tags_stack = <<>>

\* A feed has just started: parse called feed and no event is handled yet.
FeedStarts == pc = "feed" /\ ev = NoEvent

\* C18: the parser of an instance is used for one compilation: the source is
\* fed to it at most once, and no feed starts from a stack or a list that is
\* not empty, after a parse call that raised included.
C18_OneCompilationPerParser ==
    /\ feeds <= 1
    /\ FeedStarts => tags_stack = <<>> /\ result = <<>>

\* The fragments of res after its last reset sequence.
SinceReset(res) ==
    LET K == {k \in 1..Len(res) : res[k] = reset}
        last == IF K = {} THEN 0 ELSE CHOOSE k \in K : \A j \in K : j <= k
    IN  SubSeq(res, last + 1, Len(res))

\* The members of a sequence as a multiset: value |-> count.
BagOf(s) ==
    [x \in {s[k] : k \in 1..Len(s)} |-> Cardinality({k \in 1..Len(s) : s[k] = x})]

\* The sequences of the entries of the stack.
StackSeqs == [k \in 1..Len(tags_stack) |-> tags_stack[k].sgr_sequence]

\* A fragment of the form ESC [ ... m; a fragment that is no text of a source.
IsEscape(f) == Len(f) >= 3 /\ SubSeq(f, 1, 2) = CSI /\ f[Len(f)] = SGR_FINAL_BYTE
NoText(f) == f \notin Texts

\* C19: after a successful event the output is the output before it with
\* fragments appended; a text event leaves the stack as it was; the escape
\* sequences appended since the latest reset sequence are, as a multiset, the
\* sequences of the tags on the stack (and the fragments that are no text
\* those of all entries of the stack).
C19_OutputMatchesStack ==
    Succeeded =>
        /\ Len(result) >= Len(pre_result)
        /\ SubSeq(result, 1, Len(pre_result)) = pre_result
        /\ ev.kind = "data" => tags_stack = pre_stack /\ Len(result) = Len(pre_result) + 1
        /\ BagOf(SelectSeq(SinceReset(result), IsEscape)) = BagOf(SelectSeq(StackSeqs, IsEscape))
        /\ BagOf(SelectSeq(SinceReset(result), NoText)) = BagOf(SelectSeq(StackSeqs, NoText))

C19_Witness ==
    /\ EndSucceeded
    /\ Len(tags_stack) = 2
    /\ tags_stack[1] = tags_stack[2]
    /\ IsEscape(Str(tags_stack[1]))
    /\ Len(SinceReset(result)) = 2

====
